---- MODULE Spec2Model ----
(***************************************************************************)
(* Model of the wercker external-runner fleet controller                   *)
(* (src/external/controller.go) and of the Remote Docker Daemon lease      *)
(* client (src/rdd/rdd.go).                                                *)
(*                                                                         *)
(* The fleet controller is a command line program: every invocation of     *)
(* RunDockerController is a fresh process with an empty cp.containers, run *)
(* against a Docker daemon whose containers outlive the process.  The      *)
(* model runs one invocation after the other against the same daemon.      *)
(***************************************************************************)
EXTENDS Integers, Sequences, FiniteSets, TLC

\* Largest --runners count, and so the largest sequence number of a name.
MaxCount == 2

\* A runner container "<Basename>_<n>" is identified by its sequence number n;
\* one more container stands for a container of another fleet (another label).
Names == 1..MaxCount
Foreign == MaxCount + 1
Ids == 1..(MaxCount + 1)

Absent == "absent"
Statuses == {"created", "running", "exited"}

lName == "/wercker-external-runner-base"
LabelOf(c) == IF c = Foreign THEN "/wercker-external-runner-other" ELSE lName

VARIABLES
  dock,        \* the Docker daemon: container -> status, or Absent
  pc,          \* position of the controller process
  params,      \* the RunnerParams and statusOnly of the current invocation
  runners,     \* RunDockerController's local runners: <<[ID, Status]>>
  containers,  \* cp.containers: <<[containerName, containerID, containerStatus]>>
  ct,          \* startTheRunners: ct
  i,           \* startTheRunners: i ; waitForExternalRunners: range index
  k,           \* index of the runner being processed by Status / Stop
  rangeLen,    \* waitForExternalRunners: length of the slice being ranged
  attempts,    \* history: names handed to runDocker by this invocation
  kills,       \* history: container -> KillContainer calls of this invocation
  removes,     \* history: container -> RemoveContainer calls of this invocation
  inspects,    \* history: containers this invocation called InspectContainer on
  postKill,    \* history: container -> what the post-kill inspections showed
  events,      \* history: what happened to a container: <<kind, container>>
  fleetMsg,    \* the fleet-wide line printed last (by Fatal when pc = "exited")
  labelled,    \* history: fleet-labelled containers present when listed
  deadAtTick,  \* history: the handles of cp.containers whose container was
               \* exited or gone when the current scan of Wait began
  stopTick     \* shutdownRunners: flips with every round of the poll loop
               \* that found the killed container not exited yet

VARIABLES
  rddPc,         \* position of the lease client: "idle" between calls
  rddDetails,    \* rdd.rddDetails: <<>> for nil, else <<[rddURI, rddProvisionRequestID]>>
  rddResponseID, \* Provision: the request ID the Provision RPC returned
  timeoutCh,     \* Provision: the channel of time.After holds its value
  tickCh,        \* Provision: the channel of time.Tick holds a value
  deadlineFired, \* history: the deadline of this call has elapsed
  result,        \* history: what the current call has returned: <<[uri, err]>>
  rpcLog,        \* history: RPCs and verify runs of the current (or last) call
  lastResp,      \* history: the last GetStatus response of the call
  detailsAtCall, \* history: rdd.rddDetails when the call began
  deprovId,      \* history: the Id of the last Deprovision request
  op,            \* history: the method called last: "none" before any call
  answers,       \* history: what the Provision RPC, verify and the Deprovision
                 \* RPC answered in the current call, in this order
  ended          \* history: the terminal states Provision calls have ended in

VARIABLES
  logsPc,    \* logFromContainer: "none", then "streaming" while cp.client.Logs
             \* runs, then "returned"
  readerPc,  \* the goroutine reading the pipe: "none", "reading", "returned"
  pipe,      \* the io.Pipe pr/pw: the line written and not read yet, or <<>>
  ls,        \* the record the reader took last
  str        \* the line the reader put out last: the keys it is made of

logVars == <<logsPc, readerPc, pipe, ls, str>>

rddVars == <<rddPc, rddDetails, rddResponseID, timeoutCh, tickCh, deadlineFired,
             result, rpcLog, lastResp, detailsAtCall, deprovId, op, answers,
             ended>>

fleetVars == <<dock, pc, params, runners, containers, ct, i, k, rangeLen,
               attempts, kills, removes, inspects, postKill, events,
               fleetMsg, labelled, deadAtTick, stopTick>>

----------------------------------------------------------------------------
\* Helpers

RECURSIVE SetToSeq(_)
SetToSeq(S) ==
  IF S = {} THEN <<>>
  ELSE LET m == CHOOSE x \in S : \A y \in S : x <= y
       IN <<m>> \o SetToSeq(S \ {m})

\* append(s[:j], s[j+1:]...) with the 0-based j of the code being j-1 here
RemoveAt(s, j) == SubSeq(s, 1, j - 1) \o SubSeq(s, j + 1, Len(s))

Range(s) == {s[j] : j \in 1..Len(s)}

----------------------------------------------------------------------------
\* The container runtime (go-dockerclient against the Docker daemon)

\* InspectContainer: the status of a present container, or an error; a call
\* on a present container can fail too (daemon not reachable).
InspectResults(c) ==
  IF c \notin DOMAIN dock \/ dock[c] = Absent THEN {"error"} ELSE {dock[c], "error"}

\* RemoveContainer without Force: removes a container that is not running.
DockerRemove(d, c) ==
  IF d[c] \in {"created", "exited"} THEN [d EXCEPT ![c] = Absent] ELSE d

\* KillContainer succeeds only on a running container; the container is then
\* seen exited at once or some time later.
KillResults(c) == IF dock[c] = "running" THEN {"ok", "error"} ELSE {"error"}

\* Logger.Fatal (util.LogEntry wrapping logrus): logs and ends the process.
Fatal(m) == /\ pc' = "exited"
            /\ fleetMsg' = m

\* NewDockerController and the flags not given: everything off
NoParams ==
  [statusOnly |-> FALSE, ShutdownFlag |-> FALSE, RunnerCount |-> 0,
   NoWait |-> FALSE, imageOK |-> FALSE, tokenOK |-> FALSE,
   AllOption |-> FALSE, hasFilter |-> FALSE]

\* A start that passes every pre-flight check: a local image, a bearer token
\* and --all with no other selection.
GoodStart == [NoParams EXCEPT !.imageOK = TRUE, !.tokenOK = TRUE, !.AllOption = TRUE]

\* The invocations: stop and status (with and without a local image); start
\* with every runner count, waiting or not; start selecting by --orgs, --apps
\* or --workflows instead of --all; and start failing each pre-flight check.
ParamSpace ==
  {[NoParams EXCEPT !.ShutdownFlag = TRUE, !.imageOK = img] : img \in BOOLEAN}
  \cup {[NoParams EXCEPT !.statusOnly = TRUE, !.imageOK = img] : img \in BOOLEAN}
  \cup {[GoodStart EXCEPT !.RunnerCount = n, !.NoWait = nw] :
          n \in 0..MaxCount, nw \in BOOLEAN}
  \cup {[GoodStart EXCEPT !.RunnerCount = MaxCount, !.AllOption = FALSE,
                          !.hasFilter = TRUE],
        [GoodStart EXCEPT !.RunnerCount = MaxCount, !.imageOK = FALSE],
        [GoodStart EXCEPT !.RunnerCount = MaxCount, !.tokenOK = FALSE],
        [GoodStart EXCEPT !.RunnerCount = MaxCount, !.hasFilter = TRUE],
        [GoodStart EXCEPT !.RunnerCount = MaxCount, !.AllOption = FALSE]}

NoCalls == [c \in Ids |-> 0]

FleetInit ==
  /\ dock = [c \in Ids |-> IF c = Foreign THEN "running" ELSE Absent]
  /\ pc = "idle"
  /\ params = NoParams
  /\ runners = <<>>
  /\ containers = <<>>
  /\ ct = 1
  /\ i = 0
  /\ k = 1
  /\ rangeLen = 0
  /\ attempts = <<>>
  /\ kills = NoCalls
  /\ removes = NoCalls
  /\ inspects = {}
  /\ postKill = [c \in Ids |-> "none"]
  /\ events = {}
  /\ fleetMsg = ""
  /\ labelled = {}
  /\ deadAtTick = {}
  /\ stopTick = FALSE

----------------------------------------------------------------------------
\* Environment: containers change state on their own

ContainerStarts(c) ==
  /\ dock[c] = "created"
  /\ dock' = [dock EXCEPT ![c] = "running"]
  /\ UNCHANGED <<pc, params, runners, containers, ct, i, k, rangeLen, attempts,
                 kills, removes, inspects, postKill, events, fleetMsg, labelled>>
  /\ UNCHANGED <<deadAtTick, stopTick, logVars, rddVars>>

ContainerExits(c) ==
  /\ dock[c] = "running"
  /\ dock' = [dock EXCEPT ![c] = "exited"]
  /\ UNCHANGED <<pc, params, runners, containers, ct, i, k, rangeLen, attempts,
                 kills, removes, inspects, postKill, events, fleetMsg, labelled>>
  /\ UNCHANGED <<deadAtTick, stopTick, logVars, rddVars>>

\* somebody else removes the container (docker rm -f)
ContainerVanishes(c) ==
  /\ dock[c] # Absent
  /\ dock' = [dock EXCEPT ![c] = Absent]
  /\ UNCHANGED <<pc, params, runners, containers, ct, i, k, rangeLen, attempts,
                 kills, removes, inspects, postKill, events, fleetMsg, labelled>>
  /\ UNCHANGED <<deadAtTick, stopTick, logVars, rddVars>>

----------------------------------------------------------------------------
\* RunDockerController

\* A new invocation of the command: a fresh process, the same daemon.
Invoke(p) ==
  /\ pc \in {"idle", "done", "exited"}
  /\ pc' = "getLocalImage"
  /\ params' = p
  /\ runners' = <<>>
  /\ containers' = <<>>
  /\ ct' = 1
  /\ i' = 0
  /\ k' = 1
  /\ rangeLen' = 0
  /\ attempts' = <<>>
  /\ kills' = NoCalls
  /\ removes' = NoCalls
  /\ inspects' = {}
  /\ postKill' = [c \in Ids |-> "none"]
  /\ events' = {}
  /\ fleetMsg' = ""
  /\ labelled' = {}
  /\ deadAtTick' = {}
  /\ stopTick' = FALSE
  /\ UNCHANGED dock
  /\ UNCHANGED <<logVars, rddVars>>

\* lines 102-110: no local runner image is fatal
getLocalImage ==
  /\ pc = "getLocalImage"
  /\ IF params.imageOK
       THEN pc' = "list" /\ UNCHANGED fleetMsg
       ELSE Fatal("No external runner image exists")
  /\ UNCHANGED <<dock, params, runners, containers, ct, i, k, rangeLen, attempts,
                 kills, removes, inspects, postKill, events, labelled>>
  /\ UNCHANGED <<deadAtTick, stopTick, logVars, rddVars>>

\* The containers ListContainers returns that carry the fleet's label.
FleetLabelled == {c \in Ids : dock[c] # Absent /\ LabelOf(c) = lName}

\* lines 134-168: where RunDockerController goes once runners is built
Dispatch ==
  IF params.ShutdownFlag THEN "shutdownRunners"
  ELSE IF params.statusOnly THEN "status"
  ELSE "start"

\* lines 114-131: list the containers, inspect each one carrying the label and
\* keep those whose inspection succeeded, with the status it showed.
ListRunners ==
  /\ pc = "list"
  /\ \E ok \in SUBSET FleetLabelled :
       runners' = [j \in 1..Cardinality(ok) |->
                     [ID |-> SetToSeq(ok)[j], Status |-> dock[SetToSeq(ok)[j]]]]
  /\ inspects' = inspects \cup FleetLabelled
  /\ labelled' = FleetLabelled
  /\ k' = 1
  /\ pc' = Dispatch
  /\ UNCHANGED <<dock, params, containers, ct, i, rangeLen, attempts,
                 kills, removes, postKill, events, fleetMsg>>
  /\ UNCHANGED <<deadAtTick, stopTick, logVars, rddVars>>

\* bug: only containers seen "exited" are cleaned up
StatusRemoves_OnlyExited(stats) == stats = "exited"

\* lines 145-153: what Status does with a container of the status observed
StatusRemoves(stats) == stats # "running"

\* lines 140-161: Status, one container of runners per step
StatusStep ==
  /\ pc = "status"
  /\ k <= Len(runners)
  /\ LET c == runners[k].ID
         stats == runners[k].Status
     IN IF StatusRemoves(stats)
          THEN /\ dock' = DockerRemove(dock, c)
               /\ removes' = [removes EXCEPT ![c] = @ + 1]
               /\ events' = events \cup {<<"inactive", c>>}
          ELSE /\ events' = events \cup {<<"active", c>>}
               /\ UNCHANGED <<dock, removes>>
  /\ k' = k + 1
  /\ UNCHANGED <<pc, params, runners, containers, ct, i, rangeLen, attempts,
                 kills, inspects, postKill, fleetMsg, labelled>>
  /\ UNCHANGED <<deadAtTick, stopTick, logVars, rddVars>>

StatusDone ==
  /\ pc = "status"
  /\ k > Len(runners)
  /\ pc' = "done"
  /\ fleetMsg' = IF Len(runners) > 0 THEN fleetMsg
                 ELSE "There are no external runners active."
  /\ UNCHANGED <<dock, params, runners, containers, ct, i, k, rangeLen, attempts,
                 kills, removes, inspects, postKill, events, labelled>>
  /\ UNCHANGED <<deadAtTick, stopTick, logVars, rddVars>>

----------------------------------------------------------------------------
\* shutdownRunners (Stop)

\* bug: the empty list is not caught
NothingToStop_Never(rs) == FALSE

\* lines 370-373
NothingToStop(rs) == Len(rs) = 0

\* bug: everything but an exited container is killed
StopAction_KillsUnlessExited(stats) == IF stats = "exited" THEN "remove" ELSE "kill"

\* lines 379-391: a container not observed running is removed, a running one killed
StopAction(stats) == IF stats # "running" THEN "remove" ELSE "kill"

\* bug: a failed inspection is taken for an exit
PollOutcome_RemoveOnError(r) == IF r \in {"error", "exited"} THEN "remove" ELSE "again"

\* lines 402-416: what one post-kill inspection leads to
PollOutcome(r) ==
  IF r = "error" THEN "break"
  ELSE IF r = "exited" THEN "remove"
  ELSE "again"

shutdownRunners ==
  /\ pc = "shutdownRunners"
  /\ IF NothingToStop(runners)
       THEN Fatal("There are no external runners to terminate")
       ELSE pc' = "stopLoop" /\ UNCHANGED fleetMsg
  /\ k' = 1
  /\ UNCHANGED <<dock, params, runners, containers, ct, i, rangeLen, attempts,
                 kills, removes, inspects, postKill, events, labelled>>
  /\ UNCHANGED <<deadAtTick, stopTick, logVars, rddVars>>

\* lines 376-389: the next container is not running: remove it
StopRemove ==
  /\ pc = "stopLoop"
  /\ k <= Len(runners)
  /\ StopAction(runners[k].Status) = "remove"
  /\ LET c == runners[k].ID
     IN /\ dock' = DockerRemove(dock, c)
        /\ removes' = [removes EXCEPT ![c] = @ + 1]
        /\ events' = events \cup {<<"inactive", c>>}
  /\ k' = k + 1
  /\ UNCHANGED <<pc, params, runners, containers, ct, i, rangeLen, attempts,
                 kills, inspects, postKill, fleetMsg, labelled>>
  /\ UNCHANGED <<deadAtTick, stopTick, logVars, rddVars>>

\* bug: the error of KillContainer is not looked at
KillFailed_Ignored(r) == FALSE

\* line 394: err != nil
KillFailed(r) == r = "error"

\* lines 391-398: the next container is running: kill it
StopKill ==
  /\ pc = "stopLoop"
  /\ k <= Len(runners)
  /\ StopAction(runners[k].Status) = "kill"
  /\ LET c == runners[k].ID
     IN /\ kills' = [kills EXCEPT ![c] = @ + 1]
        /\ \E r \in KillResults(c) :
             IF KillFailed(r)
               THEN /\ events' = events \cup {<<"kill failed", c>>}
                    /\ k' = k + 1
                    /\ UNCHANGED <<pc, dock>>
               ELSE /\ \E st \in {"running", "exited"} :
                         dock' = [dock EXCEPT ![c] = st]
                    /\ pc' = "stopPoll"
                    /\ UNCHANGED <<k, events>>
  /\ UNCHANGED <<params, runners, containers, ct, i, rangeLen, attempts,
                 removes, inspects, postKill, fleetMsg, labelled>>
  /\ UNCHANGED <<deadAtTick, stopTick, logVars, rddVars>>

\* lines 400-417: one round of the wait for the killed container to exit
StopPoll ==
  /\ pc = "stopPoll"
  /\ LET c == runners[k].ID
     IN /\ inspects' = inspects \cup {c}
        /\ \E r \in InspectResults(c) :
             CASE PollOutcome(r) = "break" ->
                    /\ postKill' = [postKill EXCEPT ![c] = "error"]
                    /\ k' = k + 1
                    /\ pc' = "stopLoop"
                    /\ stopTick' = FALSE
                    /\ UNCHANGED <<dock, removes, events>>
               [] PollOutcome(r) = "remove" ->
                    /\ postKill' = [postKill EXCEPT ![c] = r]
                    /\ dock' = DockerRemove(dock, c)
                    /\ removes' = [removes EXCEPT ![c] = @ + 1]
                    /\ events' = events \cup {<<"terminated", c>>}
                    /\ k' = k + 1
                    /\ pc' = "stopLoop"
                    /\ stopTick' = FALSE
               [] OTHER ->
                    /\ stopTick' = ~stopTick
                    /\ UNCHANGED <<postKill, dock, removes, events, k, pc>>
  /\ UNCHANGED <<params, runners, containers, ct, i, rangeLen, attempts,
                 kills, fleetMsg, labelled>>
  /\ UNCHANGED <<deadAtTick, logVars, rddVars>>

\* lines 419-420
StopFinish ==
  /\ pc = "stopLoop"
  /\ k > Len(runners)
  /\ pc' = "done"
  /\ fleetMsg' = "External runner(s) stopped."
  /\ UNCHANGED <<dock, params, runners, containers, ct, i, k, rangeLen, attempts,
                 kills, removes, inspects, postKill, events, labelled>>
  /\ UNCHANGED <<deadAtTick, stopTick, logVars, rddVars>>

----------------------------------------------------------------------------
\* Start: RunDockerController lines 163-196, startTheRunners, startTheContainer

\* lines 164-168: runners of this name exist already
AlreadyStarted ==
  /\ pc = "start"
  /\ Len(runners) > 0
  /\ pc' = "done"
  /\ fleetMsg' = "External runner(s) already started."
  /\ UNCHANGED <<dock, params, runners, containers, ct, i, k, rangeLen, attempts,
                 kills, removes, inspects, postKill, events, labelled>>
  /\ UNCHANGED <<deadAtTick, stopTick, logVars, rddVars>>

\* bug: the selection is not checked
SelectionValid_Always(p) == TRUE

\* lines 171-179: --all is given exactly when no other selection is
SelectionValid(p) == p.AllOption # p.hasFilter

CheckSelection ==
  /\ pc = "start"
  /\ Len(runners) = 0
  /\ IF SelectionValid(params)
       THEN pc' = "startTheRunners" /\ UNCHANGED fleetMsg
       ELSE Fatal("--all and --orgs, --apps, --workflows exclude each other")
  /\ UNCHANGED <<dock, params, runners, containers, ct, i, k, rangeLen, attempts,
                 kills, removes, inspects, postKill, events, labelled>>
  /\ UNCHANGED <<deadAtTick, stopTick, logVars, rddVars>>

\* lines 200-213: the bearer token, then ct := 1 and i := RunnerCount
startTheRunners ==
  /\ pc = "startTheRunners"
  /\ IF params.tokenOK
       THEN pc' = "startLoop" /\ UNCHANGED fleetMsg
       ELSE Fatal("runner bearer token was not supplied")
  /\ ct' = 1
  /\ i' = params.RunnerCount
  /\ UNCHANGED <<dock, params, runners, containers, k, rangeLen, attempts,
                 kills, removes, inspects, postKill, events, labelled>>
  /\ UNCHANGED <<deadAtTick, stopTick, logVars, rddVars>>

\* line 214: the name of the next runner, "<Basename>_<ct>"
runnerName(n) == n

\* lines 324-328: runDocker failed
LaunchFailed(err) == Fatal(err)

\* lines 337-340: the inspection after the launch failed
InspectFailed(err) == Fatal(err)

\* lines 213-217, 266-332: one more runner is wanted; hand "docker run --detach
\* --name <name> ..." to runDocker.  The docker command then creates the
\* container on its own, or fails to (the name is taken, the daemon is away).
startTheContainer ==
  /\ pc = "startLoop"
  /\ i > 0
  /\ attempts' = Append(attempts, runnerName(ct))
  /\ \E started \in BOOLEAN :
       IF started
         THEN /\ \E st \in {Absent, "created", "running"} :
                   dock' = IF dock[runnerName(ct)] = Absent
                             THEN [dock EXCEPT ![runnerName(ct)] = st]
                             ELSE dock
              /\ pc' = "startInspect"
              /\ UNCHANGED fleetMsg
         ELSE /\ LaunchFailed("docker could not be started")
              /\ UNCHANGED dock
  /\ UNCHANGED <<params, runners, containers, ct, i, k, rangeLen,
                 kills, removes, inspects, postKill, events, labelled>>
  /\ UNCHANGED <<deadAtTick, stopTick, logVars, rddVars>>

\* line 341: theDockerContainer == nil, the container InspectContainer
\* returns with an error; it has no ID
NilContainer == 0

\* bug: the handle is recorded whatever the inspection returned
InspectSucceeded_Always(r) == TRUE

\* line 338: err == nil
InspectSucceeded(r) == r # "error"

\* line 346: theDockerContainer.ID
ContainerIdOf(name, r) == IF r = "error" THEN NilContainer ELSE name

\* lines 334-352 and 218: a second later, inspect the container by name and
\* remember it; then ct++ and i--
rememberTheContainer ==
  /\ pc = "startInspect"
  /\ inspects' = inspects \cup {runnerName(ct)}
  /\ \E r \in InspectResults(runnerName(ct)) :
       IF ~InspectSucceeded(r)
         THEN /\ InspectFailed("no such container")
              /\ UNCHANGED <<containers, ct, i>>
         ELSE /\ containers' = Append(containers,
                   [containerName |-> runnerName(ct),
                    containerID |-> ContainerIdOf(runnerName(ct), r),
                    containerStatus |-> r])
              /\ ct' = ct + 1
              /\ i' = i - 1
              /\ pc' = "startLoop"
              /\ UNCHANGED fleetMsg
  /\ UNCHANGED <<dock, params, runners, k, rangeLen, attempts,
                 kills, removes, postKill, events, labelled>>
  /\ UNCHANGED <<deadAtTick, stopTick, logVars, rddVars>>

\* lines 182-195: every runner was asked for; wait for them unless --nowait
startDone ==
  /\ pc = "startLoop"
  /\ i = 0
  /\ IF params.NoWait
       THEN /\ pc' = "done"
            /\ fleetMsg' = "Use the Wercker runner stop command"
       ELSE /\ pc' = "wait"
            /\ fleetMsg' = "Output is written to the directory"
  /\ UNCHANGED <<dock, params, runners, containers, ct, i, k, rangeLen, attempts,
                 kills, removes, inspects, postKill, events, labelled>>
  /\ UNCHANGED <<deadAtTick, stopTick, logVars, rddVars>>

----------------------------------------------------------------------------
\* waitForExternalRunners (Wait)

\* bug: the loop stops one handle early
WaitContinues_OffByOne(cs) == Len(cs) > 1

\* line 439: the loop goes on while handles are left
WaitContinues(cs) == Len(cs) > 0

\* lines 448-463: what the inspection of one handle leads to
WaitOutcome(r) ==
  IF r = "error" THEN "drop"
  ELSE IF r = "exited" THEN "reap"
  ELSE "keep"

\* bug: the scan goes on over the slice it has just shortened
WaitAfterRemoval_KeepsScanning == "waitScan"

\* lines 451 and 462: break; the scan ends with the handle it removed
WaitAfterRemoval == "wait"

\* lines 439-444: return, or sleep and start a scan of cp.containers
waitForExternalRunners ==
  /\ pc = "wait"
  /\ IF WaitContinues(containers)
       THEN /\ pc' = "waitScan"
            /\ i' = 1
            /\ rangeLen' = Len(containers)
            /\ deadAtTick' = {c \in {containers[j].containerID : j \in 1..Len(containers)} :
                                dock[c] \in {"exited", Absent}}
       ELSE /\ pc' = "done"
            /\ UNCHANGED <<i, rangeLen, deadAtTick>>
  /\ UNCHANGED <<dock, params, runners, containers, ct, k, attempts,
                 kills, removes, inspects, postKill, events, fleetMsg, labelled>>
  /\ UNCHANGED <<stopTick, logVars, rddVars>>

\* lines 444-464: the next handle of the scan
WaitScan ==
  /\ pc = "waitScan"
  /\ i <= rangeLen
  /\ LET rc == containers[i]
         c == rc.containerID
     IN /\ inspects' = inspects \cup {c}
        /\ \E r \in InspectResults(c) :
             CASE WaitOutcome(r) = "drop" ->
                    /\ containers' = RemoveAt(containers, i)
                    /\ events' = events \cup {<<"gone", c>>}
                    /\ pc' = WaitAfterRemoval
                    /\ UNCHANGED <<dock, removes, i>>
               [] WaitOutcome(r) = "reap" ->
                    /\ dock' = DockerRemove(dock, c)
                    /\ removes' = [removes EXCEPT ![c] = @ + 1]
                    /\ events' = events \cup {<<"stopped", c>>}
                    /\ containers' = RemoveAt(containers, i)
                    /\ pc' = WaitAfterRemoval
                    /\ UNCHANGED i
               [] OTHER ->
                    /\ i' = i + 1
                    /\ UNCHANGED <<dock, removes, events, containers, pc>>
  /\ UNCHANGED <<params, runners, ct, k, rangeLen, attempts,
                 kills, postKill, fleetMsg, labelled>>
  /\ UNCHANGED <<deadAtTick, stopTick, logVars, rddVars>>

\* the range is exhausted: back to the loop condition
WaitScanEnd ==
  /\ pc = "waitScan"
  /\ i > rangeLen
  /\ pc' = "wait"
  /\ UNCHANGED <<dock, params, runners, containers, ct, i, k, rangeLen, attempts,
                 kills, removes, inspects, postKill, events, fleetMsg, labelled>>
  /\ UNCHANGED <<deadAtTick, stopTick, logVars, rddVars>>

----------------------------------------------------------------------------
\* The log multiplexer: logFromContainer for one handle

\* logInfo: the fields of a record besides Time, Level and Msg
OptionalFields == {"Source", "JobId", "RunID", "AgentID", "ProjectID", "ProjectOwnerID"}

\* lines 498-515: the order the optional fields are appended in
AppendOrder == <<"AgentID", "JobId", "RunID", "ProjectID", "ProjectOwnerID", "Source">>

\* What the container can write: a line of text, a line in braces that is
\* no JSON, or a JSON record, known by the set of its non-empty fields.
LogLines ==
  [kind : {"text", "braces"}, fields : {{}}]
  \cup [kind : {"json"}, fields : SUBSET OptionalFields]

NoLine == [kind |-> "none", fields |-> {}]

LogInit ==
  /\ logsPc = "none"
  /\ readerPc = "none"
  /\ pipe = <<>>
  /\ ls = NoLine
  /\ str = <<>>

RECURSIVE AppendFields(_, _)
\* lines 498-515: append "<field>=<value>" for each field that is not empty
AppendFields(order, fields) ==
  IF order = <<>> THEN <<>>
  ELSE (IF Head(order) \in fields THEN <<Head(order)>> ELSE <<>>)
       \o AppendFields(Tail(order), fields)

\* lines 490-518: a line in braces that unmarshals into logInfo is put out as
\* "time=.. level=.. msg=.." and its non-empty fields; any other line as it is
FormatLine(rec) ==
  IF rec.kind = "json"
    THEN <<"time", "level", "msg">> \o AppendFields(AppendOrder, rec.fields)
    ELSE <<rec.kind>>

\* lines 470-546: make the pipe, start the reader, call cp.client.Logs
logFromContainer ==
  /\ logsPc = "none"
  /\ logsPc' = "streaming"
  /\ readerPc' = "reading"
  /\ UNCHANGED <<pipe, ls, str>>
  /\ UNCHANGED <<fleetVars, rddVars>>

\* line 546: Logs writes a line of the container into pw; the write of an
\* io.Pipe waits for the reader
LogsWrites(rec) ==
  /\ logsPc = "streaming"
  /\ pipe = <<>>
  /\ pipe' = <<rec>>
  /\ UNCHANGED <<logsPc, readerPc, ls, str>>
  /\ UNCHANGED <<fleetVars, rddVars>>

\* lines 483-533: the reader takes a line from pr, formats it and puts it
\* out.  rd.ReadString fails (and the reader returns, lines 484-487) only
\* once the pipe is closed, and nothing closes it.
ReadString ==
  /\ readerPc = "reading"
  /\ pipe # <<>>
  /\ ls' = pipe[1]
  /\ str' = FormatLine(pipe[1])
  /\ pipe' = <<>>
  /\ UNCHANGED <<logsPc, readerPc>>
  /\ UNCHANGED <<fleetVars, rddVars>>

\* lines 546-550: the stream has ended (the container is gone) or failed:
\* Logs returns and logFromContainer with it; pw is left open
LogsReturns ==
  /\ logsPc = "streaming"
  /\ pipe = <<>>
  /\ logsPc' = "returned"
  /\ UNCHANGED <<readerPc, pipe, ls, str>>
  /\ UNCHANGED <<fleetVars, rddVars>>

LogNext ==
  \/ logFromContainer
  \/ \E rec \in LogLines : LogsWrites(rec)
  \/ ReadString
  \/ LogsReturns

----------------------------------------------------------------------------
\* The lease client of the Remote Docker Daemon (src/rdd/rdd.go)

\* Largest number of GetStatus polls of one Provision call.
MaxPolls == 3

RequestIds == {"", "r1", "r2"}
Urls == {"", "u1", "u2"}

NoResp == [err |-> FALSE, state |-> "none", url |-> ""]

\* What GetStatus can answer: an RPC error, or a state with a URL; "pending"
\* stands for every state that is neither provisioned nor error.
StatusResponses ==
  {[err |-> TRUE, state |-> "none", url |-> ""]}
  \cup [err : {FALSE}, state : {"pending", "provisioned", "error"}, url : Urls]

Polls == Cardinality({j \in 1..Len(rpcLog) : rpcLog[j] = "GetStatus"})

\* lines 73-78: New leaves rddDetails nil
RDDInit ==
  /\ rddPc = "idle"
  /\ rddDetails = <<>>
  /\ rddResponseID = ""
  /\ timeoutCh = FALSE
  /\ tickCh = FALSE
  /\ deadlineFired = FALSE
  /\ result = <<>>
  /\ rpcLog = <<>>
  /\ lastResp = NoResp
  /\ detailsAtCall = <<>>
  /\ deprovId = ""
  /\ op = "none"
  /\ answers = <<>>
  /\ ended = {}

\* lines 161-181: what verify returns for each answer of the leased daemon
VerifyError(v) ==
  CASE v = "no client" -> "Unable to create a docker client"
    [] v = "connection failed" -> "RDD URL does not point to a working Docker environment"
    [] v = "other error" -> "transport error"
    [] v = "empty version" -> "Unidentifiable docker version"
    [] OTHER -> ""

VerifyAnswers == {"no client", "connection failed", "other error",
                  "empty version", "version"}

\* section 4.3 of the design: the terminal state a Provision call that
\* returned the error e (none: "") has ended in
TerminalState(e) ==
  IF e = "" THEN "VERIFIED"
  ELSE IF e = "TimeOut" THEN "TIMED_OUT"
  ELSE IF e \in {VerifyError(v) : v \in VerifyAnswers} THEN "VERIFY_FAILED"
  ELSE "ERROR"

\* return "", cli.NewExitError(errMsg, 1)
ReturnError(e) ==
  /\ result' = Append(result, [uri |-> "", err |-> e])
  /\ ended' = ended \cup {TerminalState(e)}
  /\ rddPc' = "idle"

\* bug: an RPC error of Provision is not looked at
ProvisionRpcFailed_Never(resp) == FALSE

\* line 86: the Provision RPC returned an error
ProvisionRpcFailed(resp) == resp = "rpc error"

\* bug: an empty request ID is taken for a request
InvalidProvisioningResponse_Never(id) == FALSE

\* line 93: the Provision RPC answered with an empty request ID
InvalidProvisioningResponse(id) == id = ""

\* lines 83-105: the Provision RPC; then the timer and the ticker are started
Provision(resp) ==
  /\ rddPc = "idle"
  /\ rpcLog' = <<"Provision">>
  /\ detailsAtCall' = rddDetails
  /\ lastResp' = NoResp
  /\ deadlineFired' = FALSE
  /\ timeoutCh' = FALSE
  /\ tickCh' = FALSE
  /\ op' = "Provision"
  /\ answers' = <<resp>>
  /\ IF ProvisionRpcFailed(resp)
       THEN /\ result' = <<[uri |-> "", err |-> "FailOnProvision"]>>
            /\ ended' = ended \cup {TerminalState("FailOnProvision")}
            /\ rddPc' = "idle"
            /\ UNCHANGED rddResponseID
       ELSE IF InvalidProvisioningResponse(resp)
         THEN /\ result' = <<[uri |-> "", err |-> "InvalidProvisioningResponse"]>>
              /\ ended' = ended \cup {TerminalState("InvalidProvisioningResponse")}
              /\ rddPc' = "idle"
              /\ rddResponseID' = resp
         ELSE /\ result' = <<>>
              /\ rddPc' = "select"
              /\ rddResponseID' = resp
              /\ UNCHANGED ended
  /\ UNCHANGED <<rddDetails, deprovId>>
  /\ UNCHANGED <<fleetVars, logVars>>

\* line 104: time.After delivers its one value when the deadline has elapsed
TimeoutFires ==
  /\ rddPc = "select"
  /\ ~deadlineFired
  /\ deadlineFired' = TRUE
  /\ timeoutCh' = TRUE
  /\ UNCHANGED <<rddPc, rddDetails, rddResponseID, tickCh, result, rpcLog,
                 lastResp, detailsAtCall, deprovId, op, answers, ended>>
  /\ UNCHANGED <<fleetVars, logVars>>

\* line 105: time.Tick delivers a value every 5 seconds into a channel of one
Tick ==
  /\ rddPc = "select"
  /\ ~tickCh
  /\ tickCh' = TRUE
  /\ UNCHANGED <<rddPc, rddDetails, rddResponseID, timeoutCh, deadlineFired,
                 result, rpcLog, lastResp, detailsAtCall, deprovId, op, answers,
                 ended>>
  /\ UNCHANGED <<fleetVars, logVars>>

\* bug: break leaves the select only, and the loop goes on
AfterTimeout_Break(e) ==
  /\ result' = Append(result, [uri |-> "", err |-> e])
  /\ ended' = ended \cup {TerminalState(e)}
  /\ rddPc' = "select"

\* lines 111-113: the timeout ends the call
AfterTimeout(e) == ReturnError(e)

\* lines 110-113: select takes the timeout case
SelectTimeout ==
  /\ rddPc = "select"
  /\ timeoutCh
  /\ timeoutCh' = FALSE
  /\ AfterTimeout("TimeOut")
  /\ UNCHANGED <<rddDetails, rddResponseID, tickCh, deadlineFired, rpcLog,
                 lastResp, detailsAtCall, deprovId, op, answers>>
  /\ UNCHANGED <<fleetVars, logVars>>

\* bug: the poll does not wait for the ticker
TickReady_Always == TRUE

\* line 115: the tick case can be taken when the ticker's channel holds a value
TickReady == tickCh

\* bug: an empty URL is taken for a lease
InvalidRDDUrl_Never(url) == FALSE

\* line 131
InvalidRDDUrl(url) == url = ""

\* bug: the timer is made anew in every round of the loop
TimerAfterPoll_Rearmed(t) == FALSE

\* lines 104-107: the timer is made once, before the loop; a poll leaves it
\* as it is
TimerAfterPoll(t) == t

\* bug: a failed GetStatus ends the call
AfterGetStatusError_Return ==
  /\ ReturnError("GetStatusFailed")
  /\ UNCHANGED rddDetails

\* lines 118-122: a failed GetStatus is logged and the loop continues
AfterGetStatusError == UNCHANGED <<rddPc, result, rddDetails, ended>>

\* bug: the error state is taken for progress
IsErrorState_Never(state) == FALSE

\* line 124: currentRDDState == rddpb.DaemonState_error
IsErrorState(state) == state = "error"

\* lines 115-146: select takes the tick case: one GetStatus poll
SelectTick(resp) ==
  /\ rddPc = "select"
  /\ TickReady
  /\ Polls < MaxPolls
  /\ tickCh' = FALSE
  /\ rpcLog' = Append(rpcLog, "GetStatus")
  /\ lastResp' = resp
  /\ IF resp.err
       THEN AfterGetStatusError
       ELSE IF IsErrorState(resp.state)
         THEN ReturnError("GetStatusError") /\ UNCHANGED rddDetails
         ELSE IF resp.state = "provisioned"
           THEN IF InvalidRDDUrl(resp.url)
                  THEN ReturnError("InvalidRDDUrl") /\ UNCHANGED rddDetails
                  ELSE /\ rddDetails' = <<[rddURI |-> resp.url,
                                          rddProvisionRequestID |-> rddResponseID]>>
                       /\ rddPc' = "verify"
                       /\ UNCHANGED <<result, ended>>
           ELSE UNCHANGED <<rddPc, result, rddDetails, ended>>
  /\ timeoutCh' = TimerAfterPoll(timeoutCh)
  /\ UNCHANGED <<rddResponseID, deadlineFired, detailsAtCall,
                 deprovId, op, answers>>
  /\ UNCHANGED <<fleetVars, logVars>>

\* bug: the URI is returned whatever verify found
ProvisionReturn_IgnoresVerify(err, uri) == [uri |-> uri, err |-> ""]

\* lines 137-141: Provision returns the error of verify, or the URI
ProvisionReturn(err, uri) ==
  IF err # "" THEN [uri |-> "", err |-> err] ELSE [uri |-> uri, err |-> ""]

\* bug: a lease that fails verify is forgotten
DetailsAfterVerify_Cleared(err, d) == IF err # "" THEN <<>> ELSE d

\* lines 136-140: rdd.rddDetails stays as recorded whatever verify returns
DetailsAfterVerify(err, d) == d

\* lines 137-141 and 161-181: verify the leased daemon, then return
verify(v) ==
  /\ rddPc = "verify"
  /\ rpcLog' = Append(rpcLog, "verify")
  /\ answers' = Append(answers, v)
  /\ result' = Append(result, ProvisionReturn(VerifyError(v), lastResp.url))
  /\ ended' = ended \cup {TerminalState(VerifyError(v))}
  /\ rddDetails' = DetailsAfterVerify(VerifyError(v), rddDetails)
  /\ rddPc' = "idle"
  /\ UNCHANGED <<rddResponseID, timeoutCh, tickCh, deadlineFired,
                 lastResp, detailsAtCall, deprovId, op>>
  /\ UNCHANGED <<fleetVars, logVars>>

\* bug: a failed Deprovision RPC is propagated
AfterDeprovision_Propagates(rpcOk) == IF rpcOk THEN "idle" ELSE "failed"

\* lines 154-158: a failed Deprovision RPC is logged as a warning; the
\* method returns in both cases
AfterDeprovision(rpcOk) == "idle"

\* section 9 of the design: with no lease the method does nothing
Deprovision_Guarded(rpcOk) ==
  /\ rddPc = "idle"
  /\ detailsAtCall' = rddDetails
  /\ result' = <<>>
  /\ lastResp' = NoResp
  /\ deadlineFired' = FALSE
  /\ op' = "Deprovision"
  /\ IF rddDetails = <<>>
       THEN /\ rpcLog' = <<>>
            /\ answers' = <<>>
            /\ UNCHANGED <<rddPc, deprovId>>
       ELSE /\ rpcLog' = <<"Deprovision">>
            /\ answers' = <<IF rpcOk THEN "ok" ELSE "rpc error">>
            /\ deprovId' = rddDetails[1].rddProvisionRequestID
            /\ rddPc' = "idle"
  /\ UNCHANGED <<rddDetails, rddResponseID, timeoutCh, tickCh, ended>>
  /\ UNCHANGED <<fleetVars, logVars>>

\* lines 151-158: Deprovision; with rddDetails nil the request cannot be built
\* (nil pointer dereference) and the process panics.  A failed RPC is logged.
Deprovision(rpcOk) ==
  /\ rddPc = "idle"
  /\ detailsAtCall' = rddDetails
  /\ result' = <<>>
  /\ lastResp' = NoResp
  /\ deadlineFired' = FALSE
  /\ op' = "Deprovision"
  /\ IF rddDetails = <<>>
       THEN /\ rddPc' = "panic"
            /\ rpcLog' = <<>>
            /\ answers' = <<>>
            /\ UNCHANGED deprovId
       ELSE /\ rpcLog' = <<"Deprovision">>
            /\ answers' = <<IF rpcOk THEN "ok" ELSE "rpc error">>
            /\ deprovId' = rddDetails[1].rddProvisionRequestID
            /\ rddPc' = AfterDeprovision(rpcOk)
  /\ UNCHANGED <<rddDetails, rddResponseID, timeoutCh, tickCh, ended>>
  /\ UNCHANGED <<fleetVars, logVars>>

RDDNext ==
  \/ \E resp \in {"rpc error"} \cup RequestIds : Provision(resp)
  \/ TimeoutFires
  \/ Tick
  \/ SelectTimeout
  \/ \E resp \in StatusResponses : SelectTick(resp)
  \/ \E v \in VerifyAnswers : verify(v)
  \/ \E rpcOk \in BOOLEAN : Deprovision(rpcOk)

----------------------------------------------------------------------------
\* The two programs: the fleet controller against the Docker daemon (Spec)
\* and the lease client against the provisioning service (RDDSpec)

vars == <<fleetVars, logVars, rddVars>>

Init == FleetInit /\ LogInit /\ RDDInit

Next ==
  \/ \E p \in ParamSpace : Invoke(p)
  \/ getLocalImage
  \/ ListRunners
  \/ StatusStep
  \/ StatusDone
  \/ shutdownRunners
  \/ StopRemove
  \/ StopKill
  \/ StopPoll
  \/ StopFinish
  \/ AlreadyStarted
  \/ CheckSelection
  \/ startTheRunners
  \/ startTheContainer
  \/ rememberTheContainer
  \/ startDone
  \/ waitForExternalRunners
  \/ WaitScan
  \/ WaitScanEnd
  \/ \E c \in Names : ContainerStarts(c)
  \/ \E c \in Names : ContainerExits(c)
  \/ \E c \in Names : ContainerVanishes(c)

Spec == Init /\ [][Next]_vars

RDDSpec == Init /\ [][RDDNext]_vars

\* One log multiplexer, its reader goroutine running: a line in the pipe is
\* read.
LogSpec == Init /\ [][LogNext]_vars /\ WF_vars(ReadString)

\* The lease client with its timer delivered and its goroutine running: the
\* deadline elapses, select takes the timeout case when it stays ready (it
\* chooses among the ready cases at random), and verify returns.
RDDFairSpec ==
  /\ Init
  /\ [][RDDNext]_vars
  /\ WF_vars(TimeoutFires)
  /\ WF_vars(SelectTimeout)
  /\ WF_vars(\E v \in VerifyAnswers : verify(v))

\* The start command alone, run again and again against the daemon.  The
\* scheduler runs the controller process: the loop condition of
\* waitForExternalRunners is evaluated whenever the process stands at it.
StartParams == {p \in ParamSpace : ~p.ShutdownFlag /\ ~p.statusOnly}

StartNext ==
  \/ \E p \in StartParams : Invoke(p)
  \/ getLocalImage
  \/ ListRunners
  \/ AlreadyStarted
  \/ CheckSelection
  \/ startTheRunners
  \/ startTheContainer
  \/ rememberTheContainer
  \/ startDone
  \/ waitForExternalRunners
  \/ WaitScan
  \/ WaitScanEnd
  \/ \E c \in Names : ContainerStarts(c)
  \/ \E c \in Names : ContainerExits(c)
  \/ \E c \in Names : ContainerVanishes(c)

StartSpec == Init /\ [][StartNext]_vars /\ WF_vars(waitForExternalRunners)

\* Every command, with the controller process running on inside
\* shutdownRunners: each step of Stop that can be taken is taken.
StopSpec ==
  /\ Init
  /\ [][Next]_vars
  /\ WF_vars(shutdownRunners)
  /\ WF_vars(StopRemove)
  /\ WF_vars(StopKill)
  /\ WF_vars(StopPoll)
  /\ WF_vars(StopFinish)

\* The start command, with the controller process running on inside a scan
\* of Wait too.
WaitSpec ==
  /\ Init
  /\ [][StartNext]_vars
  /\ WF_vars(waitForExternalRunners)
  /\ WF_vars(WaitScan)
  /\ WF_vars(WaitScanEnd)

----------------------------------------------------------------------------
\* Properties of the fleet controller

StartMode == ~params.ShutdownFlag /\ ~params.statusOnly
StopMode == params.ShutdownFlag
StatusMode == params.statusOnly /\ ~params.ShutdownFlag

\* --all is given, or a filter is, and not both
SelectionGiven == params.AllOption # params.hasFilter

PreflightOK == params.imageOK /\ SelectionGiven /\ params.tokenOK

\* the invocation went through the launch loop of startTheRunners and left it
StartRan ==
  /\ StartMode
  /\ PreflightOK
  /\ Len(runners) = 0
  /\ pc \in {"wait", "waitScan", "done", "exited"}

\* waitForExternalRunners returned
WaitReturned ==
  /\ StartMode
  /\ pc = "done"
  /\ fleetMsg = "Output is written to the directory"

IsPrefix(s, t) == Len(s) <= Len(t) /\ SubSeq(t, 1, Len(s)) = s

\* Stop / Status have dealt with the j-th container of runners
Processed(j) == pc \in {"status", "stopLoop", "stopPoll", "done"} /\ k > j

RunnerIds == {runners[j].ID : j \in 1..Len(runners)}

\* C1: once Start has left its launch loop it has attempted exactly
\* RunnerCount launches, named <base>_1 .. <base>_RunnerCount in this order,
\* whichever launches succeeded (and none when RunnerCount = 0).
C1_StartAttemptsExactlyDesiredCount ==
  StartRan => attempts = [j \in 1..params.RunnerCount |-> j]

\* C2: a failed launch of one instance (runDocker fails, or the inspection
\* after it fails) skips that instance only: the start goes on with the next
\* instance and the handles recorded so far stay in cp.containers.
C2_LaunchFailureSkipsOnlyThatInstance ==
  [][(pc \in {"startLoop", "startInspect"}) =>
       (pc' \in {"startLoop", "startInspect", "wait", "done"}
        /\ IsPrefix(containers, containers'))]_vars

\* C3: Stop with no container carrying the fleet's label ends with the error
\* "There are no external runners to terminate" and has issued no kill, no
\* remove and no inspect.
C3_StopWithNothingToStop ==
  (/\ StopMode
   /\ params.imageOK
   /\ pc \notin {"idle", "getLocalImage", "list"}
   /\ labelled = {})
  => /\ pc \in {"shutdownRunners", "exited"}
     /\ pc = "exited" => fleetMsg = "There are no external runners to terminate"
     /\ kills = NoCalls
     /\ removes = NoCalls
     /\ inspects = {}
     /\ events = {}

C3_Witness ==
  /\ StopMode
  /\ labelled = {}
  /\ pc = "exited"
  /\ fleetMsg = "There are no external runners to terminate"
  /\ dock[Foreign] = "running"

\* C4: Stop issues, for a matched container it did not observe running, exactly
\* one remove (when its turn has come, none before) and never a kill.
C4_StopRemovesNonRunningWithoutKill ==
  StopMode =>
    \A j \in 1..Len(runners) :
      runners[j].Status # "running" =>
        /\ kills[runners[j].ID] = 0
        /\ removes[runners[j].ID] = IF Processed(j) THEN 1 ELSE 0

C4_Witness ==
  /\ StopMode
  /\ pc = "done"
  /\ \E j \in 1..Len(runners) :
       /\ runners[j].Status = "created"
       /\ removes[runners[j].ID] = 1
       /\ kills[runners[j].ID] = 0

\* C5: Stop issues, for a matched container it observed running, exactly one
\* kill; it removes the container only after a post-kill inspection showed
\* "exited", and never once a post-kill inspection failed.
C5_StopKillsOnceRemovesAfterExited ==
  StopMode =>
    \A j \in 1..Len(runners) :
      runners[j].Status = "running" =>
        LET c == runners[j].ID
            reached == Processed(j) \/ (pc = "stopPoll" /\ k = j)
        IN /\ kills[c] = IF reached THEN 1 ELSE 0
           /\ removes[c] <= 1
           /\ removes[c] = 1 => postKill[c] = "exited"
           /\ postKill[c] = "error" => removes[c] = 0
           /\ postKill[c] # "none" => Processed(j)

C5_Witness ==
  /\ StopMode
  /\ pc = "done"
  /\ \E c, d \in Names :
       /\ kills[c] = 1 /\ postKill[c] = "exited" /\ removes[c] = 1
       /\ kills[d] = 1 /\ postKill[d] = "error" /\ removes[d] = 0

\* C6: Wait returns exactly when cp.containers is empty: it leaves its loop
\* only from the loop condition and only with no handle left, with no handle
\* left it does nothing but return, and an empty set is always met at the loop
\* condition, where the return is then enabled and is eventually taken.
C6_WaitReturnsExactlyWhenEmpty ==
  /\ [][(pc \in {"wait", "waitScan"} /\ pc' \notin {"wait", "waitScan"}) =>
          (pc = "wait" /\ containers = <<>> /\ pc' = "done")]_vars
  /\ [][(pc = "wait" /\ containers = <<>> /\ pc' # pc) => (pc' = "done")]_vars
  /\ [](pc = "waitScan" => containers # <<>>)
  /\ [](pc = "wait" /\ containers = <<>> => ENABLED waitForExternalRunners)
  /\ (pc = "wait" /\ containers = <<>>) ~> (pc = "done")

C6_Witness ==
  /\ WaitReturned
  /\ containers = <<>>
  /\ \E c, d \in Names : <<"gone", c>> \in events /\ <<"stopped", d>> \in events

\* C7: Status never kills and never launches; it removes a fleet container iff
\* it observed it not running and reports it active iff it observed it running.
C7_StatusObservesAndCleans ==
  StatusMode =>
    /\ kills = NoCalls
    /\ attempts = <<>>
    /\ containers = <<>>
    /\ \A c \in Ids \ RunnerIds : removes[c] = 0
    /\ \A j \in 1..Len(runners) :
         LET c == runners[j].ID
             running == runners[j].Status = "running"
         IN /\ removes[c] = IF Processed(j) /\ ~running THEN 1 ELSE 0
            /\ <<"active", c>> \in events <=> Processed(j) /\ running
            /\ <<"inactive", c>> \in events <=> Processed(j) /\ ~running

C7_Witness ==
  /\ StatusMode
  /\ pc = "done"
  /\ Len(runners) = 2
  /\ runners[1].Status = "exited" /\ removes[runners[1].ID] = 1
  /\ dock[runners[1].ID] = Absent
  /\ runners[2].Status = "running" /\ removes[runners[2].ID] = 0
  /\ events = {<<"inactive", runners[1].ID>>, <<"active", runners[2].ID>>}

\* C13: every handle of cp.containers carries the ID of a container: a handle
\* is appended only by the step that inspected the launched container with
\* success, and it is the handle of that container as the inspection saw it.
C13_ActiveHandlesHaveRuntimeId ==
  /\ [](\A j \in 1..Len(containers) :
          /\ containers[j].containerID # NilContainer
          /\ containers[j].containerID \in Ids
          /\ containers[j].containerName \in Range(attempts))
  /\ [][(Len(containers') > Len(containers)) =>
          (/\ pc = "startInspect"
           /\ dock[runnerName(ct)] # Absent
           /\ containers' = Append(containers,
                 [containerName |-> runnerName(ct),
                  containerID |-> runnerName(ct),
                  containerStatus |-> dock[runnerName(ct)]]))]_vars

C13_Witness ==
  /\ pc = "exited"
  /\ fleetMsg = "no such container"
  /\ attempts = <<1, 2>>
  /\ Len(containers) = 1
  /\ containers[1].containerID = 1

\* C14: when a scan of Wait ends, no handle whose container was exited or
\* gone when the scan began is left in cp.containers, however many there were.
C14_TickRemovesEveryDeadHandle ==
  [][(pc = "waitScan" /\ pc' = "wait") =>
       (\A j \in 1..Len(containers') :
          containers'[j].containerID \notin deadAtTick)]_vars

\* C21: a start whose pre-flight fails (no local image, --all together with a
\* filter, neither --all nor a filter, no bearer token) ends the process with
\* nothing started: no launch attempted, no handle recorded, no container
\* killed or removed, Wait not entered.  (With runners of the name present
\* the start has ended before the selection and the token are looked at.)
C21_PreflightFailureStartsNothing ==
  (StartMode /\ ~PreflightOK) =>
    /\ pc \in {"idle", "getLocalImage", "list", "start", "startTheRunners",
               "done", "exited"}
    /\ pc = "startTheRunners" => params.imageOK /\ SelectionGiven
    /\ pc = "start" => params.imageOK
    /\ pc = "done" => Len(runners) > 0 /\ fleetMsg = "External runner(s) already started."
    /\ attempts = <<>>
    /\ containers = <<>>
    /\ kills = NoCalls
    /\ removes = NoCalls

C21_Witness ==
  /\ StartMode
  /\ params.AllOption /\ params.hasFilter
  /\ params.RunnerCount = MaxCount
  /\ pc = "exited"
  /\ fleetMsg = "--all and --orgs, --apps, --workflows exclude each other"
  /\ labelled = {}

\* C28: a start that found a container carrying the fleet's label, running
\* or not, does nothing: no launch attempted, no handle recorded, nothing
\* killed or removed, Wait not entered.
C28_StartIsNoOpWhenFleetExists ==
  (StartMode /\ labelled # {}) =>
    /\ pc \in {"start", "done"}
    /\ pc = "done" => fleetMsg = "External runner(s) already started."
    /\ attempts = <<>>
    /\ containers = <<>>
    /\ kills = NoCalls
    /\ removes = NoCalls

\* C29: when KillContainer fails for a container Stop observed running, the
\* container is left as it is, neither polled nor removed; Stop goes on with
\* the next container and ends with "External runner(s) stopped.".
C29_KillFailureSkipsTheContainer ==
  /\ [][(pc = "stopLoop" /\ kills' # kills /\ dock[runners[k].ID] # "running") =>
          (/\ pc' = "stopLoop"
           /\ k' = k + 1
           /\ dock' = dock
           /\ removes' = removes
           /\ postKill' = postKill
           /\ <<"kill failed", runners[k].ID>> \in events')]_vars
  /\ [](StopMode =>
          \A c \in Ids :
            <<"kill failed", c>> \in events =>
              /\ kills[c] = 1
              /\ removes[c] = 0
              /\ postKill[c] = "none"
              /\ <<"terminated", c>> \notin events
              /\ pc \in {"stopLoop", "stopPoll", "done"})
  /\ []((StopMode /\ pc = "done") => fleetMsg = "External runner(s) stopped.")

C29_Witness ==
  /\ StopMode
  /\ pc = "done"
  /\ fleetMsg = "External runner(s) stopped."
  /\ <<"kill failed", 1>> \in events
  /\ <<"terminated", 2>> \in events
  /\ dock[1] # Absent

\* the IDs of the handles of cp.containers
HandleIds == {containers[j].containerID : j \in 1..Len(containers)}

\* the scan of Wait stands at the handle of container c, to inspect it next
Inspecting(c) ==
  /\ pc = "waitScan"
  /\ i <= rangeLen
  /\ i <= Len(containers)
  /\ containers[i].containerID = c

\* C22: a removal during a scan of Wait neither skips nor double-processes:
\* the scan never runs over a slice shorter than the one it ranges over, the
\* handles are distinct, a removal takes out exactly the handle inspected and
\* keeps the others in their order, no container is removed from the runtime
\* twice, a handle dropped or reaped is not in the set any more (so it is
\* not inspected again), and every handle left in the set is inspected by a
\* later scan.
C22_RemovalNeitherSkipsNorRepeats ==
  /\ [](pc = "waitScan" => (rangeLen = Len(containers) /\ i >= 1))
  /\ [](\A a, b \in 1..Len(containers) :
          a # b => containers[a].containerID # containers[b].containerID)
  /\ [][(pc \in {"wait", "waitScan"} /\ containers' # containers) =>
          (/\ pc = "waitScan"
           /\ i <= Len(containers)
           /\ containers' = [m \in 1..(Len(containers) - 1) |->
                               IF m < i THEN containers[m] ELSE containers[m + 1]]
           /\ \A m \in 1..Len(containers') :
                containers'[m].containerID # containers[i].containerID)]_vars
  /\ [](StartMode => \A c \in Ids : removes[c] <= 1)
  /\ [](\A c \in Ids :
          (<<"gone", c>> \in events \/ <<"stopped", c>> \in events)
            => c \notin HandleIds)
  /\ \A c \in Names : (pc = "wait" /\ c \in HandleIds) ~> Inspecting(c)

C22_Witness ==
  /\ Inspecting(2)
  /\ Len(containers) = 1
  /\ <<"stopped", 1>> \in events
  /\ removes[1] = 1

\* C23: every scan of Wait inspects every handle of the set (it ends at the
\* last handle or behind it), and the inspection of a handle has one of
\* three effects: an error drops the handle with no remove call, "exited"
\* issues one remove call and drops the handle, any other status changes
\* neither the set nor the runtime.
C23_EveryHandleInspectedEachTick ==
  /\ [][(pc = "waitScan" /\ pc' = "wait") => (i >= rangeLen)]_vars
  /\ [][(pc = "waitScan" /\ i <= rangeLen /\ (i' # i \/ containers' # containers)) =>
          LET c == containers[i].containerID
          IN \/ /\ dock[c] \notin {Absent, "exited"}
                /\ containers' = containers /\ removes' = removes /\ dock' = dock
             \/ /\ dock[c] = "exited"
                /\ containers' = RemoveAt(containers, i)
                /\ removes' = [removes EXCEPT ![c] = @ + 1]
             \/ /\ containers' = RemoveAt(containers, i)
                /\ removes' = removes /\ dock' = dock]_vars

\* C24: in Stop every container observed running gets its kill sooner or
\* later, also while a container killed before it stays stuck in the poll
\* loop (a weaker statement than the claim, which has it removed as well).
C24_StuckContainerBlocksOnlyTheReport ==
  \A c \in Names :
    (/\ StopMode
     /\ pc \in {"stopLoop", "stopPoll"}
     /\ \E j \in 1..Len(runners) :
          runners[j].ID = c /\ runners[j].Status = "running")
    ~> (kills[c] >= 1)

----------------------------------------------------------------------------
\* Properties of the log multiplexer

\* the order the design lists the optional fields in
ListedOrder == <<"JobId", "RunID", "AgentID", "ProjectID", "ProjectOwnerID", "Source">>

\* C25: a JSON record is put out as time, level, msg and then exactly its
\* non-empty optional fields in the order jobId, runId, agentId, projectId,
\* projectOwnerId, source; with no optional field as time, level, msg alone.
C25_ReformatKeepsTheListedOrder ==
  (ls.kind = "json") =>
    LET NonEmpty(f) == f \in ls.fields
    IN str = <<"time", "level", "msg">> \o SelectSeq(ListedOrder, NonEmpty)

\* C26: once the log stream of the container has ended, both tasks of its
\* multiplexer stop: the call of Logs has returned and the reader returns.
C26_LogTasksStopWithTheStream ==
  (logsPc = "returned") ~> (logsPc = "returned" /\ readerPc = "returned")

----------------------------------------------------------------------------
\* Properties of the lease client

TimedOut == [uri |-> "", err |-> "TimeOut"]

InProvision == rpcLog # <<>> /\ rpcLog[1] = "Provision"

\* C8: a GetStatus answer "provisioned" with an empty URL ends Provision with
\* the invalid-URI error; the call has not recorded rddDetails and has not run
\* verify.
C8_EmptyUrlIsAnError ==
  (~lastResp.err /\ lastResp.state = "provisioned" /\ lastResp.url = "")
  => /\ rddPc = "idle"
     /\ result = <<[uri |-> "", err |-> "InvalidRDDUrl"]>>
     /\ rddDetails = detailsAtCall
     /\ "verify" \notin Range(rpcLog)

C8_Witness ==
  /\ lastResp = [err |-> FALSE, state |-> "provisioned", url |-> ""]
  /\ result = <<[uri |-> "", err |-> "InvalidRDDUrl"]>>
  /\ rddDetails = <<>>
  /\ Polls = 2

\* C9 as claimed: a Provision call whose deadline elapsed before a poll
\* observed a terminal state returns the timeout error.
C9_DeadlineForcesTimeout ==
  (InProvision /\ rddPc = "idle" /\ deadlineFired) => result = <<TimedOut>>

\* C9 as amended: Provision returns the timeout error only by the timeout case
\* of its select, so only after the deadline elapsed with no terminal state
\* observed; with the deadline elapsed and no tick pending the timeout error is
\* the only outcome the call can produce (a pending tick may be served first,
\* and its poll may end the call otherwise); and one call produces exactly one
\* outcome, which only the next call replaces.
C9_TimeoutOnceByTheTimeoutCase ==
  /\ [](Len(result) <= 1)
  /\ [](TimedOut \in Range(result) =>
          /\ deadlineFired
          /\ rddPc = "idle"
          /\ lastResp.err \/ lastResp.state \in {"none", "pending"})
  /\ [][(rddPc = "select" /\ deadlineFired /\ ~tickCh /\ result' # result)
          => (result' = <<TimedOut>>)]_vars
  /\ [][(result # <<>> /\ result' # result)
          => (rddPc = "idle" /\ Len(rpcLog') <= 1)]_vars

C9_Witness ==
  /\ InProvision
  /\ rddPc = "idle"
  /\ result = <<TimedOut>>
  /\ lastResp.state = "pending"
  /\ ~tickCh

\* C10 as claimed: once the deadline of a Provision call has fired, the call
\* issues no further RPC, whether or not a tick is pending.
C10_NoPollOnceDeadlineFired ==
  [][(rddPc = "select" /\ deadlineFired) => (rpcLog' = rpcLog)]_vars

\* C10 as amended: once the deadline has fired, Provision issues a GetStatus
\* only for a tick that is pending when its select runs, never without one;
\* and a call that took the timeout case has issued one Provision RPC, then
\* GetStatus RPCs only (no Deprovision, no second Provision), and issues
\* nothing after it.
C10_NoPollAfterTimeoutCase ==
  /\ [][(rddPc = "select" /\ deadlineFired /\ ~tickCh) => (rpcLog' = rpcLog)]_vars
  /\ [](TimedOut \in Range(result) =>
          /\ rddPc = "idle"
          /\ rpcLog[1] = "Provision"
          /\ \A j \in 2..Len(rpcLog) : rpcLog[j] = "GetStatus")
  /\ [][(TimedOut \in Range(result) /\ rpcLog' # rpcLog)
          => (Len(rpcLog') <= 1)]_vars

C10_Witness ==
  /\ result = <<TimedOut>>
  /\ tickCh
  /\ rpcLog = <<"Provision", "GetStatus">>
  /\ rddDetails = <<>>

\* C11: rdd.rddDetails is nil, or holds a non-empty rddURI and a non-empty
\* rddProvisionRequestID, after any sequence of Provision and Deprovision
\* calls.
C11_LeaseDetailsNeverPartial ==
  \/ rddDetails = <<>>
  \/ /\ Len(rddDetails) = 1
     /\ rddDetails[1].rddURI # ""
     /\ rddDetails[1].rddProvisionRequestID # ""

C11_Witness ==
  /\ rddDetails # <<>>
  /\ op = "Deprovision"
  /\ {"ERROR", "TIMED_OUT", "VERIFY_FAILED"} \subseteq ended

\* C12: rdd.rddDetails is assigned only by a poll that observed
\* "provisioned" with a non-empty URL, and once assigned it is never changed,
\* whatever is called next (a second Provision, Deprovision).
C12_LeaseDetailsNeverChange ==
  /\ [][(rddDetails' # rddDetails) =>
          (/\ ~lastResp'.err
           /\ lastResp'.state = "provisioned"
           /\ lastResp'.url # "")]_vars
  /\ [][(rddDetails # <<>>) => (rddDetails' = rddDetails)]_vars

\* C15: a Provision call issues exactly one Provision RPC, first; when that
\* RPC fails or answers with an empty request ID the call has returned the
\* matching error with no GetStatus issued, no timer or ticker started and
\* rdd.rddDetails as it was.
C15_ProvisionRpcFailureReturnsAtOnce ==
  /\ op = "Provision" =>
       /\ rpcLog[1] = "Provision"
       /\ \A j \in 2..Len(rpcLog) : rpcLog[j] # "Provision"
  /\ (op = "Provision" /\ answers[1] \in {"rpc error", ""}) =>
       /\ rddPc = "idle"
       /\ rpcLog = <<"Provision">>
       /\ result = <<[uri |-> "",
                      err |-> IF answers[1] = "rpc error"
                                THEN "FailOnProvision"
                                ELSE "InvalidProvisioningResponse"]>>
       /\ rddDetails = detailsAtCall
       /\ ~timeoutCh /\ ~tickCh /\ ~deadlineFired

C15_Witness ==
  /\ op = "Provision"
  /\ answers = <<"rpc error">>
  /\ result = <<[uri |-> "", err |-> "FailOnProvision"]>>
  /\ "VERIFIED" \in ended
  /\ rddDetails # <<>>

C17_ErrorStateAbortsAtOnce ==
  /\ []((~lastResp.err /\ lastResp.state = "error") =>
          (/\ rddPc = "idle"
           /\ result = <<[uri |-> "", err |-> "GetStatusError"]>>
           /\ rddDetails = detailsAtCall
           /\ "verify" \notin Range(rpcLog)
           /\ rpcLog[Len(rpcLog)] = "GetStatus"))
  /\ [][(/\ rddPc = "select"
         /\ rpcLog' # rpcLog
         /\ ~lastResp'.err
         /\ lastResp'.state \notin {"error", "provisioned"}) =>
          (rddPc' = "select" /\ result' = result /\ rddDetails' = rddDetails)]_vars

C17_Witness ==
  /\ lastResp = [err |-> FALSE, state |-> "error", url |-> "u1"]
  /\ result = <<[uri |-> "", err |-> "GetStatusError"]>>
  /\ Polls = 2
  /\ rddDetails = <<>>

\* C18: Provision has returned success only when its last poll observed
\* "provisioned" with a non-empty URL, rdd.rddDetails holds that URL and the
\* request ID, and verify ran once, last, and succeeded; the URI returned is
\* the recorded one.  verify runs with rdd.rddDetails recorded.  When verify
\* fails Provision returns the error of verify and an empty URI.
C18_SuccessOnlyAfterVerify ==
  /\ (result # <<>> /\ result[1].err = "") =>
       /\ Len(result) = 1
       /\ ~lastResp.err /\ lastResp.state = "provisioned" /\ lastResp.url # ""
       /\ rddDetails = <<[rddURI |-> lastResp.url,
                          rddProvisionRequestID |-> rddResponseID]>>
       /\ result[1].uri = rddDetails[1].rddURI
       /\ result[1].uri # ""
       /\ rpcLog[Len(rpcLog)] = "verify"
       /\ \A j \in 1..(Len(rpcLog) - 1) : rpcLog[j] # "verify"
       /\ answers[Len(answers)] = "version"
  /\ rddPc = "verify" =>
       /\ rddDetails = <<[rddURI |-> lastResp.url,
                          rddProvisionRequestID |-> rddResponseID]>>
       /\ result = <<>>
       /\ "verify" \notin Range(rpcLog)
  /\ (op = "Provision" /\ Len(answers) = 2 /\ VerifyError(answers[2]) # "") =>
       result = <<[uri |-> "", err |-> VerifyError(answers[2])]>>

C18_Witness ==
  /\ result = <<[uri |-> "u2", err |-> ""]>>
  /\ rpcLog = <<"Provision", "GetStatus", "GetStatus", "verify">>
  /\ "VERIFY_FAILED" \in ended

\* C19: Deprovision called with rdd.rddDetails recorded issues one
\* Deprovision RPC, for the recorded request ID, and returns to the caller
\* whether the RPC failed or not: no second RPC, no error, the details kept.
C19_DeprovisionBestEffort ==
  (op = "Deprovision" /\ detailsAtCall # <<>>) =>
    /\ rpcLog = <<"Deprovision">>
    /\ Len(answers) = 1
    /\ deprovId = detailsAtCall[1].rddProvisionRequestID
    /\ rddPc = "idle"
    /\ result = <<>>
    /\ rddDetails = detailsAtCall

C19_Witness ==
  /\ op = "Deprovision"
  /\ answers = <<"rpc error">>
  /\ rddPc = "idle"
  /\ deprovId = "r2"

\* C20: Deprovision called on a client none of whose Provision calls went
\* past ERROR or TIMED_OUT (a fresh client included) panics on the nil
\* rdd.rddDetails: it does not return, and no Deprovision RPC is issued.
C20_DeprovisionWithoutLeaseFaults ==
  (op = "Deprovision" /\ ended \subseteq {"ERROR", "TIMED_OUT"}) =>
    /\ rddPc = "panic"
    /\ rpcLog = <<>>
    /\ answers = <<>>
    /\ deprovId = ""

C20_Witness ==
  /\ op = "Deprovision"
  /\ rddPc = "panic"
  /\ ended = {"ERROR", "TIMED_OUT"}

\* C27: every Provision call returns, whatever GetStatus answers (errors or
\* "pending" for ever included): a call that is in its loop or in verify
\* gets to its return, with one outcome.
C27_ProvisionEventuallyReturns ==
  /\ (rddPc \in {"select", "verify"}) ~> (rddPc = "idle" /\ Len(result) = 1)
  /\ []((op = "Provision" /\ rddPc = "idle") => Len(result) = 1)
  /\ []((op = "Provision" /\ rddPc # "idle") => (rddPc \in {"select", "verify"}))

C27_Witness ==
  /\ op = "Provision"
  /\ rddPc = "idle"
  /\ result = <<TimedOut>>
  /\ Polls = MaxPolls
  /\ lastResp.err

\* C30: a Provision that failed in verify leaves rdd.rddDetails recorded; a
\* Deprovision then issues its RPC for the request ID of that lease and does
\* not panic.  Deprovision panics exactly when no Provision call of the
\* client has got past a poll that observed "provisioned" with a URL, that is
\* when none has ended VERIFIED or VERIFY_FAILED.
C30_DeprovisionSafeAfterVerifyFailed ==
  /\ (op = "Provision" /\ Len(answers) = 2 /\ VerifyError(answers[2]) # "") =>
       /\ result = <<[uri |-> "", err |-> VerifyError(answers[2])]>>
       /\ rddDetails = <<[rddURI |-> lastResp.url,
                          rddProvisionRequestID |-> rddResponseID]>>
  /\ op = "Deprovision" =>
       /\ (rddPc = "panic") <=> (ended \cap {"VERIFIED", "VERIFY_FAILED"} = {})
       /\ (rddPc # "panic") =>
            /\ rpcLog = <<"Deprovision">>
            /\ rddDetails # <<>>
            /\ deprovId = rddDetails[1].rddProvisionRequestID

C30_Witness ==
  /\ op = "Deprovision"
  /\ ended = {"VERIFY_FAILED"}
  /\ rpcLog = <<"Deprovision">>
  /\ deprovId = "r1"
  /\ rddPc = "idle"

====
